---- MODULE Spec2Model ----
(***************************************************************************)
(* Model of the Flashcards repository: the text parser                     *)
(* (src/src/utils/parser.py) and the card / collection model               *)
(* (src/src/models/flashcard.py).                                          *)
(*                                                                         *)
(* A Python str is a sequence of one-character strings.  Two characters    *)
(* outside ASCII are written as atoms: Freccia stands for U+2192 (the      *)
(* separator arrow) and Pallino for U+2022 (the bullet).                   *)
(***************************************************************************)
EXTENDS Integers, Sequences, FiniteSets, TLC

VARIABLES
    pc,                  \* position of the parser run
    cards,               \* argument of collezione_to_text (empty when the text is typed)
    testo,               \* argument of parse_testo
    linee,               \* parse_testo: testo.strip().split('\n')
    i,                   \* parse_testo: enumerate index (from 1)
    categoria_corrente,  \* parse_testo: category of the last header
    flashcards,          \* parse_testo: the list being built / returned
    sollevata,           \* exception that escaped parse_testo ("none" if none)
    oggetti,             \* the Flashcard objects built so far, by identity (1, 2, ...)
    collezione,          \* FlashcardCollection.flashcards: identities, in order
    risultato,           \* what the last collection call returned: a list of identities,
                         \* <<id>> for one card, <<>> for None
    chiamata,            \* the last collection call and its argument (<<>> for None)
    alias,               \* TRUE when risultato is the very list object self.flashcards
    archivio,            \* the stored collection file: the cards' dicts, in order
    sessione,            \* the Flask session of the one browser (<<>> when never set)
    richieste            \* the requests being served: position and locals of each

vars == <<pc, cards, testo, linee, i, categoria_corrente, flashcards, sollevata,
          oggetti, collezione, risultato, chiamata, alias,
          archivio, sessione, richieste>>

parserVars == <<pc, cards, testo, linee, i, categoria_corrente, flashcards, sollevata>>
collVars == <<oggetti, collezione, risultato, chiamata, alias>>
appVars == <<archivio, sessione, richieste>>

(***************************************************************************)
(* Bounds                                                                  *)
(***************************************************************************)
MaxLinee == 3        \* lines of a typed multi-line text
MaxEsporta == 2      \* cards handed to collezione_to_text
MaxOggetti == 3      \* Flashcard objects built in one run of the collection
MaxCarte == 2        \* cards of the collection under study
MaxTentativi == 5    \* answers registered on one card
MaxSchede == 2       \* Flashcard objects built while lists are filtered and sorted
MaxRisposte == 2     \* answers registered, over all cards, in that run
MaxRichieste == 2    \* requests the application serves at the same time
MaxArchivio == 2     \* cards of the stored collection

(***************************************************************************)
(* Characters and the str methods the code uses                            *)
(***************************************************************************)
Freccia == "->"
Pallino == "(bullet)"
NL == "\n"

Generale == <<"G", "e", "n", "e", "r", "a", "l", "e">>

IsSpace(c) == c \in {" ", NL}

\* code points, for the comparison of str values by sorted()
Ord(c) ==
    CASE c = NL -> 10 [] c = " " -> 32 [] c = "#" -> 35 [] c = "*" -> 42
      [] c = "-" -> 45 [] c = "G" -> 71 [] c = "V" -> 86 [] c = "[" -> 91
      [] c = "]" -> 93 [] c = "a" -> 97 [] c = "b" -> 98 [] c = "e" -> 101
      [] c = "l" -> 108 [] c = "n" -> 110 [] c = "r" -> 114
      [] c = Pallino -> 8226 [] c = Freccia -> 8594

RECURSIVE StrLt(_, _)
StrLt(s, t) ==
    IF t = <<>> THEN FALSE
    ELSE IF s = <<>> THEN TRUE
    ELSE IF Ord(Head(s)) # Ord(Head(t)) THEN Ord(Head(s)) < Ord(Head(t))
    ELSE StrLt(Tail(s), Tail(t))

RECURSIVE lstrip(_)
lstrip(s) == IF s # <<>> /\ IsSpace(Head(s)) THEN lstrip(Tail(s)) ELSE s

RECURSIVE rstrip(_)
rstrip(s) ==
    IF s # <<>> /\ IsSpace(s[Len(s)]) THEN rstrip(SubSeq(s, 1, Len(s) - 1)) ELSE s

strip(s) == rstrip(lstrip(s))

RECURSIVE lstrip_char(_, _)
lstrip_char(s, c) == IF s # <<>> /\ Head(s) = c THEN lstrip_char(Tail(s), c) ELSE s

contains(s, c) == \E k \in 1..Len(s) : s[k] = c

RECURSIVE split(_, _)
split(s, sep) ==
    IF contains(s, sep)
    THEN LET k == CHOOSE k \in 1..Len(s) :
                      s[k] = sep /\ \A j \in 1..(k - 1) : s[j] # sep
         IN  <<SubSeq(s, 1, k - 1)>> \o split(SubSeq(s, k + 1, Len(s)), sep)
    ELSE <<s>>

RECURSIVE join(_, _)
join(sep, ls) ==
    IF ls = <<>> THEN <<>>
    ELSE IF Len(ls) = 1 THEN ls[1]
    ELSE ls[1] \o sep \o join(sep, Tail(ls))

\* s.replace('**', '')
RECURSIVE replace_stelle(_)
replace_stelle(s) ==
    IF s = <<>> THEN <<>>
    ELSE IF Len(s) >= 2 /\ s[1] = "*" /\ s[2] = "*"
         THEN replace_stelle(SubSeq(s, 3, Len(s)))
         ELSE <<Head(s)>> \o replace_stelle(Tail(s))

(***************************************************************************)
(* Flashcard                                                               *)
(***************************************************************************)
Flashcard(tedesco, italiano, categoria, priorita, corrette, sbagliate, ultima_revisione) ==
    [tedesco |-> strip(tedesco), italiano |-> strip(italiano),
     categoria |-> strip(categoria), priorita |-> priorita,
     corrette |-> corrette, sbagliate |-> sbagliate,
     ultima_revisione |-> ultima_revisione]

(***************************************************************************)
(* FlashcardParser                                                         *)
(***************************************************************************)
\* re.sub(r'^\s*[*\-(bullet)]\s*', '', linea)
sub_bullet(linea) ==
    LET t == lstrip(linea)
    IN  IF t # <<>> /\ Head(t) \in {"*", "-", Pallino} THEN lstrip(Tail(t)) ELSE linea

\* re.sub(r'\s+', ' ', linea)
RECURSIVE sub_spazi(_)
sub_spazi(s) ==
    IF s = <<>> THEN <<>>
    ELSE IF IsSpace(Head(s)) THEN <<" ">> \o sub_spazi(lstrip(s))
    ELSE <<Head(s)>> \o sub_spazi(Tail(s))

pulisci_linea(linea) == strip(sub_spazi(sub_bullet(linea)))

\* variant: the markers are looked for at the start of the line only
ha_priorita_inizio(linea_originale) ==
    Len(linea_originale) >= 2 /\ linea_originale[1] = "*" /\ linea_originale[2] = "*"

ha_priorita(linea_originale) ==
    \E k \in 1..(Len(linea_originale) - 1) :
        linea_originale[k] = "*" /\ linea_originale[k + 1] = "*"

\* re.match(r'^\[([^\]]+)\]\s*(.+)', linea): group 1 runs to the first ']' and is
\* not empty, group 2 needs one character at least (the \s* gives one back when
\* only white space follows); both groups are stripped.
estrai_categoria(linea) ==
    IF /\ linea # <<>>
       /\ Head(linea) = "["
       /\ \E k \in 3..(Len(linea) - 1) : linea[k] = "]"
       /\ linea[2] # "]"
    THEN LET k == CHOOSE k \in 3..(Len(linea) - 1) :
                      linea[k] = "]" /\ \A j \in 2..(k - 1) : linea[j] # "]"
         IN  <<strip(SubSeq(linea, 2, k - 1)), strip(SubSeq(linea, k + 1, Len(linea)))>>
    ELSE <<Generale, linea>>

estrai_coppia(linea) ==
    LET linea_originale == linea
        ec == estrai_categoria(linea)
        categoria == ec[1]
        linea_pulita == replace_stelle(pulisci_linea(ec[2]))
        parti == split(linea_pulita, Freccia)
        fallita == [err |-> "ValueError", tedesco |-> <<>>, italiano |-> <<>>,
                    priorita |-> FALSE, categoria |-> <<>>]
    IN  IF ~contains(linea_pulita, Freccia) THEN fallita
        ELSE IF Len(parti) # 2 THEN fallita
        ELSE IF strip(parti[1]) = <<>> \/ strip(parti[2]) = <<>> THEN fallita
        ELSE [err |-> "none", tedesco |-> strip(parti[1]), italiano |-> strip(parti[2]),
              priorita |-> ha_priorita(linea_originale), categoria |-> categoria]

\* parser.py line 101: the category a header line names
\* variant: the name is not trimmed
intestazione_grezza(linea) == lstrip_char(linea, "#")

intestazione(linea) == strip(lstrip_char(linea, "#"))

\* parser.py lines 112-113
\* variant: the header is never consulted
risolvi_solo_inline(categoria, corrente) == categoria

risolvi_categoria(categoria, corrente) ==
    IF categoria = Generale /\ corrente # Generale THEN corrente ELSE categoria

\* parser.py line 122: what the except clause catches
\* variant: nothing is caught
cattura_niente(err) == FALSE

cattura(err) == err = "ValueError"

\* one iteration of the loop of parse_testo over st = [categoria_corrente, flashcards, sollevata]
corpo_ciclo(st, linea_grezza) ==
    LET linea == strip(linea_grezza)
    IN  IF linea = <<>> THEN st
        ELSE IF Head(linea) = "#"
             THEN [st EXCEPT !.categoria_corrente = intestazione(linea)]
        ELSE IF ~contains(linea, Freccia) THEN st
        ELSE LET r == estrai_coppia(linea)
             IN  IF r.err # "none"
                 THEN IF cattura(r.err) THEN st ELSE [st EXCEPT !.sollevata = r.err]
                 ELSE [st EXCEPT !.flashcards =
                          Append(@, Flashcard(r.tedesco, r.italiano,
                                              risolvi_categoria(r.categoria,
                                                                st.categoria_corrente),
                                              r.priorita, 0, 0, "None"))]

flashcard_to_text(flashcard) ==
    LET asterischi == IF flashcard.priorita THEN <<"*", "*">> ELSE <<>>
        categoria_str == IF flashcard.categoria # Generale
                         THEN <<"[">> \o flashcard.categoria \o <<"]", " ">>
                         ELSE <<>>
    IN  categoria_str \o asterischi \o flashcard.tedesco \o <<" ", Freccia, " ">>
            \o flashcard.italiano \o asterischi

\* sorted(flashcards, key=lambda f: f.categoria): stable
RECURSIVE inserisci(_, _)
inserisci(ordinate, f) ==
    IF ordinate = <<>> THEN <<f>>
    ELSE IF StrLt(f.categoria, ordinate[Len(ordinate)].categoria)
         THEN Append(inserisci(SubSeq(ordinate, 1, Len(ordinate) - 1), f),
                     ordinate[Len(ordinate)])
         ELSE Append(ordinate, f)

RECURSIVE sorted_per_categoria(_)
sorted_per_categoria(fs) ==
    IF fs = <<>> THEN <<>>
    ELSE inserisci(sorted_per_categoria(SubSeq(fs, 1, Len(fs) - 1)), fs[Len(fs)])

\* the loop of collezione_to_text: the lines emitted for fs, given the previous category
RECURSIVE righe_collezione(_, _, _)
righe_collezione(fs, corrente, prima) ==
    IF fs = <<>> THEN <<>>
    ELSE LET f == Head(fs)
             testa == IF f.categoria # corrente
                      THEN (IF prima THEN <<>> ELSE << <<>> >>)
                               \o << <<"#", " ">> \o f.categoria >>
                      ELSE <<>>
         IN  testa \o << <<"*", " ">> \o flashcard_to_text(f) >>
                 \o righe_collezione(Tail(fs), f.categoria, FALSE)

collezione_to_text(fs) ==
    join(<<NL>>, righe_collezione(sorted_per_categoria(fs), <<"None">>, TRUE))

(***************************************************************************)
(* Flashcard statistics and FlashcardCollection                            *)
(***************************************************************************)
tentativi_totali(c) == c.corrette + c.sbagliate

\* the float (corrette / tentativi_totali) * 100, kept as the fraction
\* <<numerator, denominator>>; 0.0 is <<0, 1>>
percentuale_successo(c) ==
    IF tentativi_totali(c) = 0 THEN <<0, 1>> ELSE <<c.corrette * 100, tentativi_totali(c)>>

\* percentuale < k and percentuale >= k for an integer k
Minore(perc, k) == perc[1] < k * perc[2]

\* variant: the other counter is reset
registra_risposta_azzera(c, corretta) ==
    IF corretta
    THEN [c EXCEPT !.corrette = @ + 1, !.sbagliate = 0, !.ultima_revisione = "now"]
    ELSE [c EXCEPT !.sbagliate = @ + 1, !.corrette = 0, !.ultima_revisione = "now"]

registra_risposta(c, corretta) ==
    IF corretta
    THEN [c EXCEPT !.corrette = @ + 1, !.ultima_revisione = "now"]
    ELSE [c EXCEPT !.sbagliate = @ + 1, !.ultima_revisione = "now"]

\* dict.get(key, default)
get(data, key, default) == IF key \in DOMAIN data THEN data[key] ELSE default

from_dict(data) ==
    Flashcard(data["tedesco"], data["italiano"], get(data, "categoria", Generale),
              get(data, "priorita", FALSE), get(data, "corrette", 0),
              get(data, "sbagliate", 0), get(data, "ultima_revisione", "None"))

\* list.pop(indice): a negative index counts from the end
pop(lista, indice) ==
    LET n == Len(lista)
        k == IF indice < 0 THEN indice + n ELSE indice
    IN  IF k < 0 \/ k >= n
        THEN [lista |-> lista, err |-> "IndexError"]
        ELSE [lista |-> SubSeq(lista, 1, k) \o SubSeq(lista, k + 2, n), err |-> "none"]

\* list[indice]
item(lista, indice) ==
    LET n == Len(lista)
        k == IF indice < 0 THEN indice + n ELSE indice
    IN  IF k < 0 \/ k >= n THEN "IndexError" ELSE lista[k + 1]

\* list[:numero]
slice_fino(lista, numero) ==
    LET n == Len(lista)
        k == IF numero < 0 THEN numero + n ELSE numero
    IN  SubSeq(lista, 1, IF k < 0 THEN 0 ELSE IF k > n THEN n ELSE k)

\* variant: the guard has no lower bound
rimuovi_flashcard_senza_minimo(lista, indice) ==
    IF indice < Len(lista) THEN pop(lista, indice) ELSE [lista |-> lista, err |-> "none"]

rimuovi_flashcard(lista, indice) ==
    IF 0 <= indice /\ indice < Len(lista)
    THEN pop(lista, indice)
    ELSE [lista |-> lista, err |-> "none"]

get_flashcard(lista, indice) ==
    IF 0 <= indice /\ indice < Len(lista) THEN <<item(lista, indice)>> ELSE <<>>

\* variant: 'difficili' does not ask for an attempt
filtra_per_livello_senza_tentativi(livello) ==
    LET c(id) == oggetti[id]
        difficile(id) == Minore(percentuale_successo(c(id)), 50)
        media(id) == /\ tentativi_totali(c(id)) > 0
                     /\ ~Minore(percentuale_successo(c(id)), 50)
                     /\ Minore(percentuale_successo(c(id)), 80)
        facile(id) == /\ tentativi_totali(c(id)) > 0
                      /\ ~Minore(percentuale_successo(c(id)), 80)
        non_studiata(id) == tentativi_totali(c(id)) = 0
    IN  IF livello = "difficili" THEN SelectSeq(collezione, difficile)
        ELSE IF livello = "medie" THEN SelectSeq(collezione, media)
        ELSE IF livello = "facili" THEN SelectSeq(collezione, facile)
        ELSE IF livello = "non-studiate" THEN SelectSeq(collezione, non_studiata)
        ELSE collezione

filtra_per_livello(livello) ==
    LET c(id) == oggetti[id]
        difficile(id) == /\ tentativi_totali(c(id)) > 0
                         /\ Minore(percentuale_successo(c(id)), 50)
        media(id) == /\ tentativi_totali(c(id)) > 0
                     /\ ~Minore(percentuale_successo(c(id)), 50)
                     /\ Minore(percentuale_successo(c(id)), 80)
        facile(id) == /\ tentativi_totali(c(id)) > 0
                      /\ ~Minore(percentuale_successo(c(id)), 80)
        non_studiata(id) == tentativi_totali(c(id)) = 0
    IN  IF livello = "difficili" THEN SelectSeq(collezione, difficile)
        ELSE IF livello = "medie" THEN SelectSeq(collezione, media)
        ELSE IF livello = "facili" THEN SelectSeq(collezione, facile)
        ELSE IF livello = "non-studiate" THEN SelectSeq(collezione, non_studiata)
        ELSE collezione

filtra_per_priorita ==
    LET con_priorita(id) == oggetti[id].priorita
    IN  SelectSeq(collezione, con_priorita)

\* sum(card.tentativi_totali for card in ...)
RECURSIVE somma_tentativi(_)
somma_tentativi(ids) ==
    IF ids = <<>> THEN 0
    ELSE tentativi_totali(oggetti[Head(ids)]) + somma_tentativi(Tail(ids))

\* sum(card.percentuale_successo for card in ...), as a fraction
RECURSIVE somma_percentuali(_)
somma_percentuali(ids) ==
    IF ids = <<>> THEN <<0, 1>>
    ELSE LET p == percentuale_successo(oggetti[Head(ids)])
             r == somma_percentuali(Tail(ids))
         IN  <<p[1] * r[2] + r[1] * p[2], p[2] * r[2]>>

\* variant: the mean is taken over all the cards
get_statistiche_generali_su_tutte ==
    IF collezione = <<>>
    THEN [totale_flashcards |-> 0, con_priorita |-> 0, totale_tentativi |-> 0,
          percentuale_media |-> <<0, 1>>]
    ELSE LET somma == somma_percentuali(collezione)
         IN  [totale_flashcards |-> Len(collezione),
              con_priorita |-> Len(filtra_per_priorita),
              totale_tentativi |-> somma_tentativi(collezione),
              percentuale_media |-> <<somma[1], somma[2] * Len(collezione)>>]

get_statistiche_generali ==
    IF collezione = <<>>
    THEN [totale_flashcards |-> 0, con_priorita |-> 0, totale_tentativi |-> 0,
          percentuale_media |-> <<0, 1>>]
    ELSE LET con_tentativi(id) == tentativi_totali(oggetti[id]) > 0
             cards_con_tentativi == SelectSeq(collezione, con_tentativi)
             somma == somma_percentuali(cards_con_tentativi)
         IN  [totale_flashcards |-> Len(collezione),
              con_priorita |-> Len(filtra_per_priorita),
              totale_tentativi |-> somma_tentativi(collezione),
              percentuale_media |->
                  IF cards_con_tentativi # <<>>
                  THEN <<somma[1], somma[2] * Len(cards_con_tentativi)>>
                  ELSE <<0, 1>>]

\* str.lower(), on the letters in use
lower(s) ==
    LET minuscola(c) == IF c = "A" THEN "a" ELSE IF c = "B" THEN "b"
                        ELSE IF c = "G" THEN "g" ELSE IF c = "V" THEN "v" ELSE c
    IN  [k \in 1..Len(s) |-> minuscola(s[k])]

\* sub in s, for two str
sottostringa(sub, s) ==
    \E k \in 0..(Len(s) - Len(sub)) : SubSeq(s, k + 1, k + Len(sub)) = sub

filtra_per_categoria(categoria) ==
    LET stessa(id) == oggetti[id].categoria = categoria
    IN  SelectSeq(collezione, stessa)

cerca(query) ==
    LET q == lower(query)
        trovata(id) == \/ sottostringa(q, lower(oggetti[id].tedesco))
                       \/ sottostringa(q, lower(oggetti[id].italiano))
    IN  SelectSeq(collezione, trovata)

filtra_per_difficolta(soglia) ==
    LET difficile(id) == /\ tentativi_totali(oggetti[id]) > 0
                         /\ Minore(percentuale_successo(oggetti[id]), soglia)
    IN  SelectSeq(collezione, difficile)

\* the sort key of ordina_per_difficolta, as a fraction
chiave_difficolta(c) ==
    IF tentativi_totali(c) > 0 THEN percentuale_successo(c) ELSE <<100, 1>>

\* list.sort(key=..., reverse=not crescente): stable in both directions
RECURSIVE ordina_per_difficolta(_, _)
ordina_per_difficolta(lista, crescente) ==
    IF lista = <<>> THEN <<>>
    ELSE LET testa == Head(lista)
             k == chiave_difficolta(oggetti[testa])
             resto == ordina_per_difficolta(Tail(lista), crescente)
             prima(id) ==
                 LET h == chiave_difficolta(oggetti[id])
                 IN  IF crescente THEN h[1] * k[2] < k[1] * h[2]
                                  ELSE h[1] * k[2] > k[1] * h[2]
             \* the cards of the rest that sort strictly before the head
             davanti == SelectSeq(resto, prima)
         IN  davanti \o <<testa>> \o SubSeq(resto, Len(davanti) + 1, Len(resto))

\* variant: a result that holds every card, in order, is self.flashcards itself
alias_senza_copia(elementi) == elementi = collezione

\* a list comprehension, list(...), .copy() and a slice each build a new list
\* object, whatever its elements: the result is never self.flashcards itself
alias_nuova_lista(elementi) == FALSE

\* the orders random.shuffle can leave a list in
Permutazioni(lista) ==
    LET n == Len(lista)
    IN  { [k \in 1..n |-> lista[p[k]]] :
              p \in { q \in [1..n -> 1..n] : \A a, b \in 1..n : q[a] = q[b] => a = b } }

\* flashcard.py lines 154-156, on the shuffled copy; numero is <<>> for None, <<n>> for n
get_flashcards_casuali(mescolate, numero) ==
    IF numero # <<>> /\ numero[1] # 0 THEN slice_fino(mescolate, numero[1]) ELSE mescolate

(***************************************************************************)
(* Inputs of the parser                                                    *)
(***************************************************************************)
Sep == <<" ", Freccia, " ">>

\* what may follow the bullet and the [Category] prefix on a line
Corpi ==
    { <<"a">> \o Sep \o <<"b">>,                              \* a -> b
      <<"*", "*", "a">> \o Sep \o <<"b", "*", "*">>,          \* **a -> b**
      <<"a", " ", "*", "*", Freccia, "*", "*", " ", "b">>,    \* a **->** b
      <<"a">> \o Sep \o <<"b">> \o Sep \o <<"a">>,            \* a -> b -> a
      <<Freccia, " ", "b">>,                                  \* -> b
      <<"a", " ", Freccia>>,                                  \* a ->
      <<Freccia>>,                                            \* ->
      <<"a", " ", "b">>,                                      \* a b
      <<"b", Freccia, "a">>,                                  \* b->a
      <<"*", "*", " ", Freccia, " ", "b">> }                  \* ** -> b

Bullets == { <<>>, <<"*", " ">>, <<"-", " ">>, <<Pallino, " ">> }

Prefissi == { <<>>, <<"[", "V", "]", " ">>, <<"[">> \o Generale \o <<"]", " ">> }

Intestazioni ==
    { <<"#", " ", "V">>,
      <<"#", " ">> \o Generale,
      <<"#", "#", " ", " ", "V">>,
      <<"#">>,
      <<"#", " ", "a">> \o Sep \o <<"b">> }

Righe == { b \o p \o c : b \in Bullets, p \in Prefissi, c \in Corpi }

\* the lines of the longer texts
RigheBase ==
    { <<"a">> \o Sep \o <<"b">>,
      <<"*", "*", "b">> \o Sep \o <<"a", "*", "*">>,
      <<"a">> \o Sep \o <<"b">> \o Sep \o <<"a">>,
      <<Freccia, " ", "b">>,
      <<"a", " ", "b">>,
      <<"#", " ", "V">>,
      <<"#", " ">> \o Generale,
      <<>> }

Testi ==
    { join(<<NL>>, <<r>>) : r \in Righe \cup Intestazioni }
    \cup { join(<<NL>>, <<h, r>>) : h \in Intestazioni, r \in Righe }
    \cup { join(<<NL>>, ls) : ls \in UNION { [1..n -> RigheBase] : n \in 0..MaxLinee } }

Termini == { <<"a">>, <<"b">> }

Categorie == { Generale, <<"V">> }

CardValide ==
    { Flashcard(t, it, c, p, 0, 0, "None") :
          t \in Termini, it \in Termini, c \in Categorie, p \in BOOLEAN }

(***************************************************************************)
(* The parser run: collezione_to_text (when the text is an export), then    *)
(* parse_testo line by line                                                *)
(***************************************************************************)
\* no request is being served
AppFermo ==
    /\ archivio = <<>>
    /\ sessione = <<>>
    /\ richieste = <<>>

InitColl ==
    /\ oggetti = <<>>
    /\ collezione = <<>>
    /\ risultato = <<>>
    /\ chiamata = [op |-> "init", arg |-> <<>>]
    /\ alias = FALSE
    /\ AppFermo

InitParser ==
    /\ \/ /\ pc = "collezione_to_text"
          /\ cards \in UNION { [1..n -> CardValide] : n \in 1..MaxEsporta }
          /\ testo = <<>>
       \/ /\ pc = "parse_testo"
          /\ cards = <<>>
          /\ testo \in Testi
    /\ linee = <<>>
    /\ i = 0
    /\ categoria_corrente = Generale
    /\ flashcards = <<>>
    /\ sollevata = "none"
    /\ InitColl

Esporta ==
    /\ pc = "collezione_to_text"
    /\ testo' = collezione_to_text(cards)
    /\ pc' = "parse_testo"
    /\ UNCHANGED <<cards, linee, i, categoria_corrente, flashcards, sollevata>>
    /\ UNCHANGED collVars
    /\ UNCHANGED appVars

\* parser.py lines 88-90
ParseInizio ==
    /\ pc = "parse_testo"
    /\ flashcards' = <<>>
    /\ linee' = split(strip(testo), NL)
    /\ categoria_corrente' = Generale
    /\ i' = 1
    /\ pc' = "ciclo"
    /\ UNCHANGED <<cards, testo, sollevata>>
    /\ UNCHANGED collVars
    /\ UNCHANGED appVars

\* parser.py lines 92-124: one iteration
ParseCiclo ==
    /\ pc = "ciclo"
    /\ i <= Len(linee)
    /\ LET st == corpo_ciclo([categoria_corrente |-> categoria_corrente,
                              flashcards |-> flashcards,
                              sollevata |-> sollevata], linee[i])
       IN  /\ categoria_corrente' = st.categoria_corrente
           /\ flashcards' = st.flashcards
           /\ sollevata' = st.sollevata
           /\ pc' = IF st.sollevata # "none" THEN "sollevata" ELSE "ciclo"
    /\ i' = i + 1
    /\ UNCHANGED <<cards, testo, linee>>
    /\ UNCHANGED collVars
    /\ UNCHANGED appVars

\* parser.py line 126
ParseReturn ==
    /\ pc = "ciclo"
    /\ i > Len(linee)
    /\ pc' = "return"
    /\ UNCHANGED <<cards, testo, linee, i, categoria_corrente, flashcards, sollevata>>
    /\ UNCHANGED collVars
    /\ UNCHANGED appVars

NextParser == Esporta \/ ParseInizio \/ ParseCiclo \/ ParseReturn

SpecParser == InitParser /\ [][NextParser]_vars

(***************************************************************************)
(* The collection: construction, add, remove, get, random selection        *)
(***************************************************************************)
ParserFermo ==
    /\ pc = "fermo"
    /\ cards = <<>>
    /\ testo = <<>>
    /\ linee = <<>>
    /\ i = 0
    /\ categoria_corrente = Generale
    /\ flashcards = <<>>
    /\ sollevata = "none"

InitCollezione == ParserFermo /\ InitColl

\* the (tedesco, italiano) arguments of a direct construction
CoppieGrezze == { <<<<"a">>, <<"b">>>>, <<<<"a">>, <<" ">>>> }

\* the dicts handed to Flashcard.from_dict
Dati ==
    { [tedesco |-> <<"a">>, italiano |-> <<"b">>],
      [tedesco |-> <<>>, italiano |-> <<"b">>, categoria |-> <<" ", "V">>,
       priorita |-> TRUE, corrette |-> 0, sbagliate |-> 0, ultima_revisione |-> "None"] }

Indici == (0 - 2)..MaxOggetti

\* Flashcard(tedesco, italiano), then aggiungi_flashcard
Aggiungi(tedesco, italiano) ==
    /\ Len(oggetti) < MaxOggetti
    /\ oggetti' = Append(oggetti, Flashcard(tedesco, italiano, Generale, FALSE, 0, 0, "None"))
    /\ collezione' = Append(collezione, Len(oggetti) + 1)
    /\ risultato' = <<>>
    /\ chiamata' = [op |-> "aggiungi_flashcard", arg |-> <<>>]
    /\ UNCHANGED parserVars
    /\ alias' = FALSE
    /\ UNCHANGED appVars

\* aggiungi_flashcard(Flashcard.from_dict(card_data))
AggiungiDaDict(data) ==
    /\ Len(oggetti) < MaxOggetti
    /\ oggetti' = Append(oggetti, from_dict(data))
    /\ collezione' = Append(collezione, Len(oggetti) + 1)
    /\ risultato' = <<>>
    /\ chiamata' = [op |-> "from_dict", arg |-> <<>>]
    /\ UNCHANGED parserVars
    /\ alias' = FALSE
    /\ UNCHANGED appVars

Rimuovi(indice) ==
    /\ LET r == rimuovi_flashcard(collezione, indice)
       IN  collezione' = r.lista /\ sollevata' = r.err
    /\ risultato' = <<>>
    /\ chiamata' = [op |-> "rimuovi_flashcard", arg |-> <<indice>>]
    /\ UNCHANGED <<pc, cards, testo, linee, i, categoria_corrente, flashcards, oggetti>>
    /\ alias' = FALSE
    /\ UNCHANGED appVars

GetFlashcard(indice) ==
    /\ risultato' = get_flashcard(collezione, indice)
    /\ chiamata' = [op |-> "get_flashcard", arg |-> <<indice>>]
    /\ UNCHANGED <<oggetti, collezione>>
    /\ UNCHANGED parserVars
    /\ alias' = FALSE
    /\ UNCHANGED appVars

Casuali(numero) ==
    /\ \E mescolate \in Permutazioni(collezione) :
           risultato' = get_flashcards_casuali(mescolate, numero)
    /\ chiamata' = [op |-> "get_flashcards_casuali", arg |-> numero]
    /\ UNCHANGED <<oggetti, collezione>>
    /\ UNCHANGED parserVars
    /\ alias' = alias_nuova_lista(risultato')
    /\ UNCHANGED appVars

NextColl ==
    \/ \E coppia \in CoppieGrezze : Aggiungi(coppia[1], coppia[2])
    \/ \E data \in Dati : AggiungiDaDict(data)
    \/ \E indice \in Indici : Rimuovi(indice)
    \/ \E indice \in Indici : GetFlashcard(indice)
    \/ \E numero \in {<<>>} \cup { <<n>> : n \in 0..(MaxOggetti + 1) } : Casuali(numero)

SpecColl == InitCollezione /\ [][NextColl]_vars

(***************************************************************************)
(* The collection under study: answers and the level filter                *)
(***************************************************************************)
Livelli == {"difficili", "medie", "facili", "non-studiate"}

InitStudio ==
    /\ ParserFermo
    /\ \E n \in 0..MaxCarte :
           /\ oggetti = [k \in 1..n |->
                            Flashcard(<<"a">>, <<"b">>, Generale, FALSE, 0, 0, "None")]
           /\ collezione = [k \in 1..n |-> k]
    /\ risultato = <<>>
    /\ chiamata = [op |-> "init", arg |-> <<>>]
    /\ alias = FALSE
    /\ AppFermo

\* card = get_flashcard(indice); card.registra_risposta(corretta)
Registra(indice, corretta) ==
    /\ get_flashcard(collezione, indice) # <<>>
    /\ LET id == get_flashcard(collezione, indice)[1]
       IN  /\ tentativi_totali(oggetti[id]) < MaxTentativi
           /\ oggetti' = [oggetti EXCEPT ![id] = registra_risposta(@, corretta)]
    /\ risultato' = <<>>
    /\ chiamata' = [op |-> "registra_risposta", arg |-> <<indice>>]
    /\ UNCHANGED collezione
    /\ UNCHANGED parserVars
    /\ alias' = FALSE
    /\ UNCHANGED appVars

FiltraPerLivello(livello) ==
    /\ risultato' = filtra_per_livello(livello)
    /\ chiamata' = [op |-> "filtra_per_livello", arg |-> <<livello>>]
    /\ UNCHANGED <<oggetti, collezione>>
    /\ UNCHANGED parserVars
    /\ alias' = alias_nuova_lista(risultato')
    /\ UNCHANGED appVars

NextStudio ==
    \/ \E indice \in 0..(MaxCarte - 1), corretta \in BOOLEAN : Registra(indice, corretta)
    \/ \E livello \in Livelli \cup {"tutte"} : FiltraPerLivello(livello)

SpecStudio == InitStudio /\ [][NextStudio]_vars

(***************************************************************************)
(* The collection under study: the general statistics                      *)
(***************************************************************************)
InitStat ==
    /\ ParserFermo
    /\ \E n \in 0..MaxCarte : \E priorita \in [1..n -> BOOLEAN] :
           /\ oggetti = [k \in 1..n |->
                            Flashcard(<<"a">>, <<"b">>, Generale, priorita[k], 0, 0, "None")]
           /\ collezione = [k \in 1..n |-> k]
    /\ risultato = <<>>
    /\ chiamata = [op |-> "init", arg |-> <<>>]
    /\ alias = FALSE
    /\ AppFermo

Statistiche ==
    /\ risultato' = get_statistiche_generali
    /\ chiamata' = [op |-> "get_statistiche_generali", arg |-> <<>>]
    /\ UNCHANGED <<oggetti, collezione>>
    /\ UNCHANGED parserVars
    /\ alias' = FALSE
    /\ UNCHANGED appVars

NextStat ==
    \/ \E indice \in 0..(MaxCarte - 1), corretta \in BOOLEAN : Registra(indice, corretta)
    \/ Statistiche

SpecStat == InitStat /\ [][NextStat]_vars

(***************************************************************************)
(* The collection and the lists its filters hand out                        *)
(***************************************************************************)
\* the calls that return a list of cards
Filtri == {"filtra_per_categoria", "cerca", "filtra_per_priorita",
           "filtra_per_difficolta", "filtra_per_livello", "get_flashcards_casuali"}

\* card = get_flashcard(index); card.priorita = not card.priorita
TogglePriorita(indice) ==
    /\ get_flashcard(collezione, indice) # <<>>
    /\ LET id == get_flashcard(collezione, indice)[1]
       IN  oggetti' = [oggetti EXCEPT ![id].priorita = ~@]
    /\ risultato' = <<>>
    /\ chiamata' = [op |-> "toggle_priority", arg |-> <<indice>>]
    /\ alias' = FALSE
    /\ UNCHANGED collezione
    /\ UNCHANGED parserVars
    /\ UNCHANGED appVars

FiltraPerCategoria(categoria) ==
    /\ risultato' = filtra_per_categoria(categoria)
    /\ chiamata' = [op |-> "filtra_per_categoria", arg |-> <<categoria>>]
    /\ alias' = alias_nuova_lista(risultato')
    /\ UNCHANGED <<oggetti, collezione>>
    /\ UNCHANGED parserVars
    /\ UNCHANGED appVars

Cerca(query) ==
    /\ risultato' = cerca(query)
    /\ chiamata' = [op |-> "cerca", arg |-> <<query>>]
    /\ alias' = alias_nuova_lista(risultato')
    /\ UNCHANGED <<oggetti, collezione>>
    /\ UNCHANGED parserVars
    /\ UNCHANGED appVars

FiltraPerPriorita ==
    /\ risultato' = filtra_per_priorita
    /\ chiamata' = [op |-> "filtra_per_priorita", arg |-> <<>>]
    /\ alias' = alias_nuova_lista(risultato')
    /\ UNCHANGED <<oggetti, collezione>>
    /\ UNCHANGED parserVars
    /\ UNCHANGED appVars

FiltraPerDifficolta(soglia) ==
    /\ risultato' = filtra_per_difficolta(soglia)
    /\ chiamata' = [op |-> "filtra_per_difficolta", arg |-> <<soglia>>]
    /\ alias' = alias_nuova_lista(risultato')
    /\ UNCHANGED <<oggetti, collezione>>
    /\ UNCHANGED parserVars
    /\ UNCHANGED appVars

Ordina(crescente) ==
    /\ collezione' = ordina_per_difficolta(collezione, crescente)
    /\ risultato' = <<>>
    /\ chiamata' = [op |-> "ordina_per_difficolta", arg |-> <<crescente>>]
    /\ alias' = FALSE
    /\ UNCHANGED oggetti
    /\ UNCHANGED parserVars
    /\ UNCHANGED appVars

\* a caller registers an answer on a card it takes from the list just returned
RegistraSuRisultato(k, corretta) ==
    /\ chiamata.op \in Filtri
    /\ k \in 1..Len(risultato)
    /\ oggetti' = [oggetti EXCEPT ![risultato[k]] = registra_risposta(@, corretta)]
    /\ chiamata' = [op |-> "risultato.registra_risposta", arg |-> <<k>>]
    /\ UNCHANGED <<collezione, risultato, alias>>
    /\ UNCHANGED parserVars
    /\ UNCHANGED appVars

\* a caller appends a card to the list just returned
AppendSuRisultato(id) ==
    /\ chiamata.op \in Filtri
    /\ id \in 1..Len(oggetti)
    /\ Len(risultato) < MaxSchede
    /\ IF alias
       THEN collezione' = Append(collezione, id) /\ risultato' = collezione'
       ELSE risultato' = Append(risultato, id) /\ UNCHANGED collezione
    /\ chiamata' = [op |-> "risultato.append", arg |-> <<id>>]
    /\ UNCHANGED <<oggetti, alias>>
    /\ UNCHANGED parserVars
    /\ UNCHANGED appVars

\* a caller removes the entry at a position of the list just returned
PopSuRisultato(k) ==
    /\ chiamata.op \in Filtri
    /\ k \in 0..(Len(risultato) - 1)
    /\ IF alias
       THEN collezione' = pop(collezione, k).lista /\ risultato' = collezione'
       ELSE risultato' = pop(risultato, k).lista /\ UNCHANGED collezione
    /\ chiamata' = [op |-> "risultato.pop", arg |-> <<k>>]
    /\ UNCHANGED <<oggetti, alias>>
    /\ UNCHANGED parserVars
    /\ UNCHANGED appVars

\* the answers registered so far, over all the objects
RECURSIVE risposte_registrate(_)
risposte_registrate(ogg) ==
    IF ogg = <<>> THEN 0 ELSE tentativi_totali(Head(ogg)) + risposte_registrate(Tail(ogg))

NextCarte ==
    \/ /\ Len(oggetti) < MaxSchede
       /\ Aggiungi(<<"a">>, <<"b">>)
    \/ \E indice \in 0..(MaxSchede - 1) : indice < Len(collezione) /\ Rimuovi(indice)
    \/ /\ risposte_registrate(oggetti) < MaxRisposte
       /\ \E indice \in 0..(MaxSchede - 1), corretta \in BOOLEAN : Registra(indice, corretta)
    \/ \E indice \in 0..(MaxSchede - 1) : TogglePriorita(indice)
    \/ FiltraPerCategoria(Generale)
    \/ Cerca(<<"A">>)
    \/ FiltraPerPriorita
    \/ FiltraPerDifficolta(50)
    \/ FiltraPerLivello("tutte")
    \/ Casuali(<<1>>)
    \/ \E crescente \in BOOLEAN : Ordina(crescente)

SpecCarte == InitCollezione /\ [][NextCarte]_vars

(***************************************************************************)
(* The lists the filters hand out, in the hands of a caller                 *)
(***************************************************************************)
NextListe ==
    \/ /\ Len(oggetti) < MaxSchede
       /\ Aggiungi(<<"a">>, <<"b">>)
    \/ /\ Len(oggetti) < MaxSchede
       /\ \E data \in { d \in Dati : d.tedesco = <<>> } : AggiungiDaDict(data)
    \/ /\ risposte_registrate(oggetti) < MaxRisposte
       /\ \E indice \in 0..(MaxSchede - 1), corretta \in BOOLEAN : Registra(indice, corretta)
    \/ FiltraPerCategoria(<<"V">>)
    \/ Cerca(<<"A">>)
    \/ FiltraPerPriorita
    \/ FiltraPerDifficolta(50)
    \/ \E livello \in {"non-studiate", "tutte"} : FiltraPerLivello(livello)
    \/ Casuali(<<>>)
    \/ /\ risposte_registrate(oggetti) < MaxRisposte
       /\ \E k \in 1..MaxSchede, corretta \in BOOLEAN : RegistraSuRisultato(k, corretta)
    \/ \E id \in 1..MaxSchede : AppendSuRisultato(id)
    \/ \E k \in 0..(MaxSchede - 1) : PopSuRisultato(k)

SpecListe == InitCollezione /\ [][NextListe]_vars

(***************************************************************************)
(* The application: the stored collection, the session, the requests        *)
(***************************************************************************)
\* Flashcard.to_dict
to_dict(c) ==
    [tedesco |-> c.tedesco, italiano |-> c.italiano, categoria |-> c.categoria,
     priorita |-> c.priorita, corrette |-> c.corrette, sbagliate |-> c.sbagliate,
     ultima_revisione |-> c.ultima_revisione]

\* Storage.salva: the file holds collection.to_dict()
salva(collection) == [k \in 1..Len(collection) |-> to_dict(collection[k])]

\* Storage.carica: FlashcardCollection.from_dict of the file (no file: no card)
carica(file) == [k \in 1..Len(file) |-> from_dict(file[k])]

\* parse_testo as a function of the text: the loop body over the lines
RECURSIVE parse_linee(_, _)
parse_linee(st, righe) ==
    IF righe = <<>> \/ st.sollevata # "none" THEN st
    ELSE parse_linee(corpo_ciclo(st, Head(righe)), Tail(righe))

parse_testo(t) ==
    parse_linee([categoria_corrente |-> Generale, flashcards |-> <<>>,
                 sollevata |-> "none"], split(strip(t), NL))

\* the texts posted to add_flashcards
TestiApp == { <<"a", Freccia, "b">>, <<"b", Freccia, "a">>, <<"a">>, <<" ">> }

\* add_flashcards lines 96-98: every parsed card goes to the end
add_flashcards(collection, nuove) ==
    [collection |-> collection \o nuove, risposta |-> "success", salvata |-> TRUE]

\* delete_flashcard lines 121-128
delete_flashcard(collection, index) ==
    IF 0 <= index /\ index < Len(collection)
    THEN [collection |-> rimuovi_flashcard(collection, index).lista,
          risposta |-> "success", salvata |-> TRUE]
    ELSE [collection |-> collection, risposta |-> "400", salvata |-> FALSE]

\* start_study lines 168-183: the session a shuffled collection gives
start_study(mescolate) ==
    LET casuali == get_flashcards_casuali(mescolate, <<>>)
    IN  [flashcards |-> [j \in 1..Len(casuali) |->
                            [tedesco |-> casuali[j].tedesco,
                             italiano |-> casuali[j].italiano,
                             priorita |-> casuali[j].priorita]],
         indice |-> 0, corrette |-> 0, sbagliate |-> 0]

\* register_answer's test of the session it was sent (line 245)
sessione_valida(sess) ==
    /\ sess # <<>>
    /\ sess.flashcards # <<>>
    /\ sess.indice < Len(sess.flashcards)

\* variant: the session moves on only when the card was found
register_answer_solo_trovata(collection, sess, corretta) ==
    LET card_data == sess.flashcards[sess.indice + 1]
        trovate == { j \in 1..Len(collection) :
                         /\ collection[j].tedesco = card_data.tedesco
                         /\ collection[j].italiano = card_data.italiano }
        prima == CHOOSE j \in trovate : \A h \in trovate : j <= h
        card_trovata == trovate # {}
    IN  [collection |-> IF card_trovata
                        THEN [collection EXCEPT ![prima] = registra_risposta(@, corretta)]
                        ELSE collection,
         salvata |-> card_trovata,
         sessione |-> IF card_trovata
                      THEN [sess EXCEPT !.corrette = IF corretta THEN @ + 1 ELSE @,
                                        !.sbagliate = IF corretta THEN @ ELSE @ + 1,
                                        !.indice = @ + 1]
                      ELSE sess,
         risposta |-> IF sess.indice + 1 >= Len(sess.flashcards)
                      THEN "completed" ELSE "success"]

\* register_answer lines 249-283, for a valid session: the first card with the
\* session card's terms takes the answer and the collection is saved; the
\* session moves on either way
register_answer(collection, sess, corretta) ==
    LET card_data == sess.flashcards[sess.indice + 1]
        trovate == { j \in 1..Len(collection) :
                         /\ collection[j].tedesco = card_data.tedesco
                         /\ collection[j].italiano = card_data.italiano }
        prima == CHOOSE j \in trovate : \A h \in trovate : j <= h
        card_trovata == trovate # {}
    IN  [collection |-> IF card_trovata
                        THEN [collection EXCEPT ![prima] = registra_risposta(@, corretta)]
                        ELSE collection,
         salvata |-> card_trovata,
         sessione |-> [sess EXCEPT !.corrette = IF corretta THEN @ + 1 ELSE @,
                                   !.sbagliate = IF corretta THEN @ ELSE @ + 1,
                                   !.indice = @ + 1],
         risposta |-> IF sess.indice + 1 >= Len(sess.flashcards)
                      THEN "completed" ELSE "success"]

InitApp ==
    /\ ParserFermo
    /\ InitColl
    /\ alias = FALSE
    /\ archivio = <<>>
    /\ sessione = <<>>
    /\ richieste = <<>>

\* a handler replies
Rispondi(op, risposta) ==
    /\ chiamata' = [op |-> op, arg |-> <<>>]
    /\ risultato' = <<risposta>>
    /\ UNCHANGED <<oggetti, collezione, alias>>
    /\ UNCHANGED parserVars

\* save_collection if the handler got that far, then the reply
Esito(op, e) ==
    /\ archivio' = IF e.salvata THEN salva(e.collection) ELSE archivio
    /\ Rispondi(op, e.risposta)

\* what parse_testo makes of each of the posted texts
nuove_cards == [t \in TestiApp |-> parse_testo(t)]

\* add_flashcards, up to the 400 / 500 replies given before the collection is read
AddRifiutata(t) ==
    /\ \/ strip(t) = <<>>
       \/ nuove_cards[t].sollevata # "none"
       \/ nuove_cards[t].flashcards = <<>>
    /\ Rispondi("add_flashcards",
                IF strip(t) # <<>> /\ nuove_cards[t].sollevata # "none" THEN "500" ELSE "400")
    /\ UNCHANGED appVars

AddAccettata(t) ==
    /\ strip(t) # <<>>
    /\ nuove_cards[t].sollevata = "none"
    /\ nuove_cards[t].flashcards # <<>>
    /\ Len(archivio) < MaxArchivio

\* register_answer when the session holds no card to answer
AnswerRifiutata(corretta) ==
    /\ ~sessione_valida(sessione)
    /\ Rispondi("register_answer", "400")
    /\ UNCHANGED appVars

AnswerAccettata ==
    /\ sessione_valida(sessione)
    /\ risposte_registrate(archivio) < MaxRisposte

\* start_study: it reads the collection and writes the session only
StartStudy ==
    /\ LET collection == carica(archivio)
       IN  IF Len(collection) = 0
           THEN /\ UNCHANGED sessione
                /\ Rispondi("start_study", "400")
           ELSE /\ \E mescolate \in Permutazioni(collection) :
                       sessione' = start_study(mescolate)
                /\ Rispondi("start_study", "success")
    /\ UNCHANGED <<archivio, richieste>>

(***************************************************************************)
(* One request served at a time, each handler from its first line to its    *)
(* reply                                                                    *)
(***************************************************************************)
Add(t) ==
    /\ AddAccettata(t)
    /\ Esito("add_flashcards", add_flashcards(carica(archivio), nuove_cards[t].flashcards))
    /\ UNCHANGED <<sessione, richieste>>

Delete(index) ==
    /\ Esito("delete_flashcard", delete_flashcard(carica(archivio), index))
    /\ UNCHANGED <<sessione, richieste>>

Answer(corretta) ==
    /\ AnswerAccettata
    /\ LET e == register_answer(carica(archivio), sessione, corretta)
       IN  Esito("register_answer", e) /\ sessione' = e.sessione
    /\ UNCHANGED richieste

IndiciApp == 0..MaxArchivio

NextSeriale ==
    \/ \E t \in TestiApp : AddRifiutata(t)
    \/ \E t \in TestiApp : Add(t)
    \/ \E index \in IndiciApp : Delete(index)
    \/ StartStudy
    \/ \E corretta \in BOOLEAN : AnswerRifiutata(corretta)
    \/ \E corretta \in BOOLEAN : Answer(corretta)

SpecSeriale == InitApp /\ [][NextSeriale]_vars

(***************************************************************************)
(* Requests served at the same time: a handler's get_collection() and its   *)
(* save_collection() are two steps, and other requests run in between       *)
(***************************************************************************)
togli(lista, k) == SubSeq(lista, 1, k - 1) \o SubSeq(lista, k + 1, Len(lista))

\* the browser waits for the reply to a study request before it sends the next
SessioneLibera == \A k \in 1..Len(richieste) : richieste[k].op # "register_answer"

\* a handler runs up to and including its get_collection()
Carica(op, arg) ==
    /\ Len(richieste) < MaxRichieste
    /\ richieste' = Append(richieste,
                           [op |-> op, arg |-> arg, collection |-> carica(archivio)])
    /\ UNCHANGED <<archivio, sessione>>
    /\ UNCHANGED collVars
    /\ UNCHANGED parserVars

AddCarica(t) == AddAccettata(t) /\ Carica("add_flashcards", nuove_cards[t].flashcards)

AddSalva(k) ==
    /\ k \in 1..Len(richieste)
    /\ richieste[k].op = "add_flashcards"
    /\ Esito("add_flashcards", add_flashcards(richieste[k].collection, richieste[k].arg))
    /\ richieste' = togli(richieste, k)
    /\ UNCHANGED sessione

DeleteCarica(index) == Carica("delete_flashcard", <<index>>)

DeleteSalva(k) ==
    /\ k \in 1..Len(richieste)
    /\ richieste[k].op = "delete_flashcard"
    /\ Esito("delete_flashcard",
             delete_flashcard(richieste[k].collection, richieste[k].arg[1]))
    /\ richieste' = togli(richieste, k)
    /\ UNCHANGED sessione

AnswerCarica(corretta) ==
    /\ SessioneLibera
    /\ AnswerAccettata
    /\ Carica("register_answer", <<corretta>>)

AnswerSalva(k) ==
    /\ k \in 1..Len(richieste)
    /\ richieste[k].op = "register_answer"
    /\ LET e == register_answer(richieste[k].collection, sessione, richieste[k].arg[1])
       IN  Esito("register_answer", e) /\ sessione' = e.sessione
    /\ richieste' = togli(richieste, k)

NextApp ==
    \/ \E t \in TestiApp : AddCarica(t)
    \/ \E k \in 1..MaxRichieste : AddSalva(k)
    \/ DeleteCarica(0)
    \/ \E k \in 1..MaxRichieste : DeleteSalva(k)
    \/ SessioneLibera /\ StartStudy
    \/ \E corretta \in BOOLEAN : AnswerCarica(corretta)
    \/ \E k \in 1..MaxRichieste : AnswerSalva(k)

SpecApp == InitApp /\ [][NextApp]_vars

(***************************************************************************)
(* Claims about the parser                                                 *)
(***************************************************************************)
Quadrupla(c) == <<c.tedesco, c.italiano, c.categoria, c.priorita>>

Quadruple(cs) == { Quadrupla(cs[k]) : k \in 1..Len(cs) }

Ultima(cs) == cs[Len(cs)]

\* the step is an iteration of the loop of parse_testo over the line returned
Iterazione == pc = "ciclo" /\ i <= Len(linee) /\ i' = i + 1

LineaCorrente == strip(linee[i])

ProduceCarta == Len(flashcards') = Len(flashcards) + 1

NumFrecce(l) == Cardinality({ k \in 1..Len(l) : l[k] = Freccia })

DueStelle(l) == \E k \in 1..(Len(l) - 1) : SubSeq(l, k, k + 1) = <<"*", "*">>

\* the line begins with an inline [C] prefix
HaPrefisso(l) == l # <<>> /\ l[1] = "[" /\ \E k \in 3..Len(l) : l[k] = "]"

FinePrefisso(l) == CHOOSE k \in 2..Len(l) : l[k] = "]" /\ \A j \in 2..(k - 1) : l[j] # "]"

CategoriaPrefisso(l) == SubSeq(l, 2, FinePrefisso(l) - 1)

SenzaPrefisso(l) == IF HaPrefisso(l) THEN SubSeq(l, FinePrefisso(l) + 1, Len(l)) ELSE l

\* a term with nothing in it but white space, bullets and priority markers
Marcatori == {" ", NL, "*", "-", Pallino}

SoloMarcatori(s) == \A k \in 1..Len(s) : s[k] \in Marcatori

\* a card candidate (not blank, not a header) that the contract rejects: no
\* arrow, two arrows or more, or an empty source or target term
Difettosa(l) ==
    /\ l # <<>>
    /\ l[1] # "#"
    /\ \/ NumFrecce(l) # 1
       \/ LET parti == split(SenzaPrefisso(l), Freccia)
          IN  SoloMarcatori(parti[1]) \/ SoloMarcatori(parti[2])

Valida(l) == l # <<>> /\ l[1] # "#" /\ ~Difettosa(l)

\* C1: parse_testo(collezione_to_text(cards)) has the same set of (source term,
\* target term, category, priority) tuples as cards, for every non-empty list
\* of valid cards, non-default categories included.
C1_RoundTrip ==
    pc = "return" /\ cards # <<>> => Quadruple(flashcards) = Quadruple(cards)

\* C2: parse_testo never raises; a line with two or more arrows, with an empty
\* source or target term, or without an arrow produces no card and changes
\* nothing, and every valid line adds exactly one card after the cards of the
\* lines before it.
C2_LineeDifettose ==
    [][Iterazione =>
          /\ sollevata' = "none" /\ pc' = "ciclo"
          /\ Difettosa(LineaCorrente) =>
                 flashcards' = flashcards /\ categoria_corrente' = categoria_corrente
          /\ Valida(LineaCorrente) =>
                 ProduceCarta /\ SubSeq(flashcards', 1, Len(flashcards)) = flashcards]_vars

\* C3: the ** priority markers never leak into the terms: the card of a line
\* that carries ** markers around or inside a term pair, with or without a
\* leading bullet and an inline [Category] prefix, has no asterisk in its
\* source term nor in its target term.
C3_NessunAsterisco ==
    [][Iterazione /\ DueStelle(LineaCorrente) /\ Valida(LineaCorrente) /\ ProduceCarta =>
          /\ ~contains(Ultima(flashcards').tedesco, "*")
          /\ ~contains(Ultima(flashcards').italiano, "*")]_vars

\* a line "A -> B" of plain terms: letters and spaces around one arrow
Semplice(l) ==
    /\ NumFrecce(l) = 1
    /\ \A k \in 1..Len(l) : l[k] \in {"a", "b", " ", Freccia}
    /\ \A q \in 1..2 : \E k \in 1..Len(split(l, Freccia)[q]) :
           split(l, Freccia)[q][k] \in {"a", "b"}

\* C4: a card produced by parse_testo has priority = true exactly when its line
\* contains ** anywhere; a plain line "A -> B" without ** yields exactly one
\* card, with source term A, target term B and priority = false.
C4_Priorita ==
    [][Iterazione =>
          /\ ProduceCarta => (Ultima(flashcards').priorita <=> DueStelle(LineaCorrente))
          /\ Semplice(LineaCorrente) =>
                 /\ ProduceCarta
                 /\ SubSeq(flashcards', 1, Len(flashcards)) = flashcards
                 /\ Ultima(flashcards').tedesco = strip(split(LineaCorrente, Freccia)[1])
                 /\ Ultima(flashcards').italiano = strip(split(LineaCorrente, Freccia)[2])
                 /\ Ultima(flashcards').priorita = FALSE]_vars

C4_Witness ==
    /\ pc = "return"
    /\ testo = <<"a", " ", "*", "*", Freccia, "*", "*", " ", "b">>
    /\ Len(flashcards) = 1
    /\ flashcards[1].priorita
    /\ flashcards[1].tedesco = <<"a">>

\* C5: a card line that begins with an inline [C] prefix gets category C,
\* whatever header is in force, also when C is the default category name.
C5_PrefissoVince ==
    [][Iterazione /\ HaPrefisso(LineaCorrente) /\ ProduceCarta =>
          Ultima(flashcards').categoria = strip(CategoriaPrefisso(LineaCorrente))]_vars

\* the name a header line carries: what follows its leading # characters, trimmed
NomeIntestazione(l) ==
    LET h == CHOOSE h \in 1..Len(l) :
                 /\ \A j \in 1..h : l[j] = "#"
                 /\ h < Len(l) => l[h + 1] # "#"
    IN  strip(SubSeq(l, h + 1, Len(l)))

EIntestazione(l) == l # <<>> /\ l[1] = "#"

\* the category in force at line n: that of the last header before it, else the default
CategoriaInVigore(n) ==
    LET prima == { k \in 1..(n - 1) : EIntestazione(strip(linee[k])) }
    IN  IF prima = {} THEN Generale
        ELSE NomeIntestazione(strip(linee[CHOOSE k \in prima : \A j \in prima : j <= k]))

\* C6: a line starting with # produces no card and sets the current category to
\* its name; a card line without an inline prefix gets the category of the most
\* recent # line before it (also a header naming the default category again),
\* and the default category when there is none.
C6_Intestazioni ==
    [][Iterazione =>
          /\ EIntestazione(LineaCorrente) =>
                 /\ flashcards' = flashcards
                 /\ categoria_corrente' = NomeIntestazione(LineaCorrente)
          /\ ProduceCarta /\ ~contains(LineaCorrente, "[") =>
                 Ultima(flashcards').categoria = CategoriaInVigore(i)]_vars

C6_Witness ==
    /\ pc = "return"
    /\ linee = << <<"#", " ", "V">>, <<"#", " ">> \o Generale,
                  <<"a", " ", Freccia, " ", "b">> >>
    /\ Len(flashcards) = 1
    /\ flashcards[1].categoria = Generale

(***************************************************************************)
(* Claims about the card and the collection                                *)
(***************************************************************************)
Carta(k) == oggetti[collezione[k]]

Min(a, b) == IF a < b THEN a ELSE b

\* C7: constructing a card whose source or target term is empty after trimming
\* fails (direct construction and Flashcard.from_dict alike), so no card of a
\* collection ever has an empty term.
C7_NessunTermineVuoto ==
    \A k \in 1..Len(collezione) : Carta(k).tedesco # <<>> /\ Carta(k).italiano # <<>>

\* C8: rimuovi_flashcard(i) with 0 <= i < len removes exactly the card at
\* position i and shifts the later cards down by one; with any other i,
\* negative ones included, it changes nothing and raises nothing;
\* get_flashcard(i) returns the card at position i when 0 <= i < len, else None.
C8_RimuoviGet ==
    [][/\ chiamata'.op = "rimuovi_flashcard" =>
              LET k == chiamata'.arg[1]
                  n == Len(collezione)
              IN  /\ sollevata' = "none"
                  /\ oggetti' = oggetti
                  /\ (0 <= k /\ k < n) =>
                         /\ Len(collezione') = n - 1
                         /\ \A j \in 1..(n - 1) :
                                collezione'[j] = IF j <= k THEN collezione[j]
                                                 ELSE collezione[j + 1]
                  /\ (k < 0 \/ k >= n) => collezione' = collezione
       /\ chiamata'.op = "get_flashcard" =>
              LET k == chiamata'.arg[1]
                  n == Len(collezione)
              IN  /\ collezione' = collezione
                  /\ risultato' = IF 0 <= k /\ k < n THEN <<collezione[k + 1]>> ELSE <<>>]_vars

C8_Witness ==
    /\ chiamata.op = "rimuovi_flashcard"
    /\ chiamata.arg = <<1>>
    /\ collezione = <<1, 3>>

\* C9: get_flashcards_casuali(numero) returns cards of the collection, none
\* twice, min(numero, n) of them for every numero >= 0 (none for numero = 0)
\* and all n when no count is given; the collection keeps its order.
C9_Casuali ==
    [][chiamata'.op = "get_flashcards_casuali" =>
          LET n == Len(collezione)
              r == risultato'
          IN  /\ collezione' = collezione
              /\ \A a, b \in 1..Len(r) : r[a] = r[b] => a = b
              /\ \A a \in 1..Len(r) : \E k \in 1..n : r[a] = collezione[k]
              /\ Len(r) = IF chiamata'.arg = <<>> THEN n
                          ELSE Min(chiamata'.arg[1], n)]_vars

\* the band of a card, from its counters
Banda(c) ==
    LET t == c.corrette + c.sbagliate
    IN  IF t = 0 THEN "non-studiate"
        ELSE IF 2 * c.corrette < t THEN "difficili"
        ELSE IF 5 * c.corrette < 4 * t THEN "medie"
        ELSE "facili"

CarteDiBanda(livello) ==
    LET nella_banda(id) == Banda(oggetti[id]) = livello
    IN  SelectSeq(collezione, nella_banda)

Elementi(lista) == { lista[k] : k \in 1..Len(lista) }

\* C10: filtra_per_livello returns, in collection order, exactly the attempted
\* cards with rate < 50 ('difficili'), with 50 <= rate < 80 ('medie'), with
\* rate >= 80 ('facili'), the cards never attempted ('non-studiate'), and all
\* cards for any other level; a never-attempted card is never 'difficili' and
\* every card is in exactly one of the four bands.
C10_Livelli ==
    /\ chiamata.op = "filtra_per_livello" =>
           risultato = IF chiamata.arg[1] \in Livelli
                       THEN CarteDiBanda(chiamata.arg[1])
                       ELSE collezione
    /\ \A id \in Elementi(filtra_per_livello("difficili")) :
           oggetti[id].corrette + oggetti[id].sbagliate > 0
    /\ \A k \in 1..Len(collezione) :
           Cardinality({ l \in Livelli : collezione[k] \in Elementi(filtra_per_livello(l)) }) = 1

C10_Witness ==
    /\ chiamata.op = "filtra_per_livello"
    /\ chiamata.arg = <<"difficili">>
    /\ Len(collezione) = 2
    /\ Carta(1).corrette = 0 /\ Carta(1).sbagliate = 0
    /\ Carta(2).corrette = 1 /\ Carta(2).sbagliate = 2
    /\ risultato = <<collezione[2]>>

Attempted == { k \in 1..Len(collezione) : Carta(k).corrette + Carta(k).sbagliate > 0 }

RECURSIVE SommaSu(_, _)
SommaSu(S, f) ==
    IF S = {} THEN 0 ELSE LET k == CHOOSE k \in S : TRUE IN f[k] + SommaSu(S \ {k}, f)

RECURSIVE ProdottoSu(_, _)
ProdottoSu(S, f) ==
    IF S = {} THEN 1 ELSE LET k == CHOOSE k \in S : TRUE IN f[k] * ProdottoSu(S \ {k}, f)

TentativiDi == [k \in 1..Len(collezione) |-> Carta(k).corrette + Carta(k).sbagliate]

\* C11: get_statistiche_generali returns the number of cards, the number of
\* priority cards, the sum of correct + incorrect over all cards, and the mean
\* of the success rates of the cards with at least one attempt (0 when there
\* is none); all four are 0 on an empty collection, and one card with 3
\* correct and 1 incorrect gives 4 attempts and a mean of 75.
C11_Statistiche ==
    chiamata.op = "get_statistiche_generali" =>
        LET n == Len(collezione)
            media == risultato.percentuale_media
            comune == ProdottoSu(Attempted, TentativiDi)
            \* the rates of the attempted cards over the common denominator
            quote == [k \in 1..n |-> 100 * Carta(k).corrette * (comune \div TentativiDi[k])]
        IN  /\ risultato.totale_flashcards = n
            /\ risultato.con_priorita = Cardinality({ k \in 1..n : Carta(k).priorita })
            /\ risultato.totale_tentativi = SommaSu(1..n, TentativiDi)
            /\ media[2] > 0
            /\ Attempted = {} => media[1] = 0
            /\ Attempted # {} =>
                   media[1] * comune * Cardinality(Attempted) = media[2] * SommaSu(Attempted, quote)
            /\ (n = 1 /\ Carta(1).corrette = 3 /\ Carta(1).sbagliate = 1) =>
                   risultato.totale_tentativi = 4 /\ media[1] = 75 * media[2]

C11_Witness ==
    /\ chiamata.op = "get_statistiche_generali"
    /\ Len(collezione) = 2
    /\ Carta(1).corrette = 3 /\ Carta(1).sbagliate = 1
    /\ Carta(2).corrette = 0 /\ Carta(2).sbagliate = 0
    /\ risultato.totale_tentativi = 4
    /\ risultato.percentuale_media[1] = 75 * risultato.percentuale_media[2]

C13_StesseCarte ==
    [][ /\ chiamata'.op \in Filtri =>
               /\ Elementi(risultato') \subseteq Elementi(collezione)
               /\ oggetti' = oggetti
               /\ collezione' = collezione
        /\ chiamata'.op = "risultato.registra_risposta" =>
               \E p \in 1..Len(collezione) :
                   /\ collezione[p] = risultato[chiamata'.arg[1]]
                   /\ collezione' = collezione
                   /\ oggetti'[collezione'[p]].corrette + oggetti'[collezione'[p]].sbagliate
                          = oggetti[collezione[p]].corrette + oggetti[collezione[p]].sbagliate + 1
        /\ chiamata'.op \in {"risultato.append", "risultato.pop"} =>
               /\ collezione' = collezione
               /\ oggetti' = oggetti
      ]_vars

C13_Witness ==
    /\ chiamata.op = "risultato.registra_risposta"
    /\ Len(risultato) = 1
    /\ Len(collezione) = 2
    /\ collezione[2] = risultato[1]
    /\ Carta(2).corrette = 1
    /\ Carta(1).corrette + Carta(1).sbagliate = 0

\* C14: the application serializes the requests' access to the stored
\* collection: whenever a request saves, nothing has been saved since that
\* request read the collection, so the save takes no stored card and no
\* registered answer away (other than the card a delete request removes).
C14_Serializzate ==
    [][ archivio' # archivio =>
            \E k \in 1..Len(richieste) :
                /\ richieste' = togli(richieste, k)
                /\ richieste[k].collection = carica(archivio)
                /\ richieste[k].op # "delete_flashcard" =>
                       /\ Len(archivio') >= Len(archivio)
                       /\ risposte_registrate(archivio') >= risposte_registrate(archivio)
      ]_vars

Accettata == {"success", "completed"}

\* C15: once start_study has set the session, corrette + sbagliate = indice
\* and 0 <= indice <= number of session cards; an accepted answer moves indice
\* on by one; an answer sent with no session, or with indice at the number of
\* cards, is rejected and changes neither the session nor the stored
\* collection; the reply is 'completed' exactly when the last card has just
\* been answered.
C15_Sessione ==
    [][ /\ sessione' # <<>> =>
               /\ sessione'.corrette + sessione'.sbagliate = sessione'.indice
               /\ 0 <= sessione'.indice
               /\ sessione'.indice <= Len(sessione'.flashcards)
        /\ chiamata'.op = "start_study" /\ risultato' = <<"success">> =>
               /\ sessione'.indice = 0
               /\ Len(sessione'.flashcards) = Len(archivio)
        /\ chiamata'.op = "register_answer" =>
               IF sessione = <<>> \/ sessione.indice >= Len(sessione.flashcards)
               THEN /\ risultato'[1] \notin Accettata
                    /\ sessione' = sessione
                    /\ archivio' = archivio
               ELSE /\ risultato'[1] \in Accettata
                    /\ sessione'.indice = sessione.indice + 1
                    /\ sessione'.flashcards = sessione.flashcards
                    /\ risultato' = <<"completed">>
                           <=> sessione'.indice = Len(sessione'.flashcards)
      ]_vars

C15_Witness ==
    /\ chiamata.op = "register_answer"
    /\ risultato = <<"completed">>
    /\ sessione # <<>>
    /\ Len(sessione.flashcards) = 2
    /\ sessione.indice = 2
    /\ sessione.corrette = 1
    /\ sessione.sbagliate = 1

\* C16: every answer register_answer accepts is recorded in the stored
\* collection, whatever start_study, add_flashcards, delete_flashcard and
\* register_answer requests came before: the store's total of attempts goes
\* up by exactly one, on a card with the session card's two terms.
C16_RispostaRegistrata ==
    [][ (chiamata'.op = "register_answer" /\ risultato'[1] \in Accettata) =>
            LET card_data == sessione.flashcards[sessione.indice + 1]
            IN  /\ risposte_registrate(archivio') = risposte_registrate(archivio) + 1
                /\ Len(archivio') = Len(archivio)
                /\ \E j \in 1..Len(archivio) :
                       /\ archivio'[j].tedesco = card_data.tedesco
                       /\ archivio'[j].italiano = card_data.italiano
                       /\ archivio'[j].corrette + archivio'[j].sbagliate
                              = archivio[j].corrette + archivio[j].sbagliate + 1
      ]_vars

====
